---- MODULE Spec2Model ----
(***************************************************************************)
(* Model of open_llm_vtuber/utils/tts_preprocessor.py: the text filters    *)
(* applied before speech synthesis (tts_filter and its stages).            *)
(*                                                                         *)
(* A Python str is a sequence of code points (naturals); a Python value is *)
(* a record [kind, v]; the outcome of a call is a record [raised, value].  *)
(***************************************************************************)
EXTENDS Integers, Sequences, FiniteSets, TLC

(***************************************************************************)
(* Bounds of the model.                                                    *)
(***************************************************************************)
\* longest enumerated argument of the nested stripper
MaxNestedLen == 4
\* longest argument of remove_special_characters
MaxSpecialLen == 3
\* calls of remove_special_characters made in a row
MaxSpecialCalls == 2
\* longest argument of filter_asterisks
MaxAsteriskLen == 6
\* longest enumerated argument of tts_filter
MaxPipeLen == 3

(***************************************************************************)
(* Characters, by code point.                                              *)
(***************************************************************************)
Ch ==
  [ nl |-> 10, sp |-> 32, dollar |-> 36, lpar |-> 40, rpar |-> 41,
    star |-> 42, lt |-> 60, gt |-> 62, lbr |-> 91, rbr |-> 93,
    a |-> 97, b |-> 98, c |-> 99, d |-> 100, e |-> 101,
    x |-> 120, y |-> 121, z |-> 122 ]

\* The characters Python's \s and str.isspace() accept (Py_UNICODE_ISSPACE).
WhiteSpace ==
  {9, 10, 11, 12, 13, 28, 29, 30, 31, 32, 133, 160, 5760, 8232, 8233, 8239,
   8287, 12288} \cup (8192..8202)

isspace(ch) == ch \in WhiteSpace

(***************************************************************************)
(* Python values and call outcomes.                                        *)
(***************************************************************************)
Str(s) == [kind |-> "str", v |-> s]
PyNone == [kind |-> "NoneType", v |-> <<>>]
Return(val) == [raised |-> "", value |-> val]
Raise(err) == [raised |-> err, value |-> PyNone]
Pending == [raised |-> "pending", value |-> PyNone]

\* All sequences over S of length at most n.
SeqsUpTo(S, n) == UNION {[1..k -> S] : k \in 0..n}

(***************************************************************************)
(* The whitespace pass of the filters.                                     *)
(***************************************************************************)
\* re.sub(r"\s+", " ", s)
RECURSIVE CollapseSpaces(_)
CollapseSpaces(s) ==
  IF s = <<>> THEN <<>>
  ELSE IF isspace(Head(s))
       THEN IF Len(s) > 1 /\ isspace(s[2])
            THEN CollapseSpaces(Tail(s))
            ELSE <<Ch.sp>> \o CollapseSpaces(Tail(s))
       ELSE <<Head(s)>> \o CollapseSpaces(Tail(s))

RECURSIVE LStrip(_)
LStrip(s) == IF s # <<>> /\ isspace(Head(s)) THEN LStrip(Tail(s)) ELSE s

RECURSIVE RStrip(_)
RStrip(s) ==
  IF s # <<>> /\ isspace(s[Len(s)]) THEN RStrip(SubSeq(s, 1, Len(s) - 1)) ELSE s

strip(s) == RStrip(LStrip(s))

CollapseOnly(s) == CollapseSpaces(s)

\* re.sub(r"\s+", " ", s).strip()
CleanSpaces(s) == strip(CollapseSpaces(s))

(***************************************************************************)
(* _filter_nested: the depth-counting scan.                                *)
(***************************************************************************)
ScanCharCopiesClose(st, ch, left, right) ==
  IF ch = left THEN [st EXCEPT !.depth = @ + 1]
  ELSE IF ch = right /\ st.depth > 0 THEN [st EXCEPT !.depth = @ - 1]
  ELSE IF st.depth = 0 THEN [st EXCEPT !.result = Append(@, ch)]
  ELSE st

ScanCharNoGuard(st, ch, left, right) ==
  IF ch = left THEN [st EXCEPT !.depth = @ + 1]
  ELSE IF ch = right THEN [st EXCEPT !.depth = @ - 1]
  ELSE IF st.depth = 0 THEN [st EXCEPT !.result = Append(@, ch)]
  ELSE st

\* One iteration of "for char in text" on the loop state [depth, result].
ScanChar(st, ch, left, right) ==
  IF ch = left THEN [st EXCEPT !.depth = @ + 1]
  ELSE IF ch = right
       THEN IF st.depth > 0 THEN [st EXCEPT !.depth = @ - 1] ELSE st
  ELSE IF st.depth = 0 THEN [st EXCEPT !.result = Append(@, ch)]
  ELSE st

RECURSIVE ScanFrom(_, _, _, _)
ScanFrom(st, s, left, right) ==
  IF s = <<>> THEN st
  ELSE ScanFrom(ScanChar(st, Head(s), left, right), Tail(s), left, right)

ScanStart == [depth |-> 0, result |-> <<>>]

filter_nested(text, left, right) ==
  IF text.kind # "str" THEN Raise("TypeError")
  ELSE IF text.v = <<>> THEN Return(text)
  ELSE Return(Str(CleanSpaces(ScanFrom(ScanStart, text.v, left, right).result)))

BracketPair == <<Ch.lbr, Ch.rbr>>
ParenPair == <<Ch.lpar, Ch.rpar>>
AnglePair == <<Ch.lt, Ch.gt>>

filter_brackets(text) == filter_nested(text, BracketPair[1], BracketPair[2])
filter_parentheses(text) == filter_nested(text, ParenPair[1], ParenPair[2])
filter_angle_brackets(text) == filter_nested(text, AnglePair[1], AnglePair[2])

(***************************************************************************)
(* The Unicode character database, for the characters of the model:        *)
(* unicodedata.category, the canonical combining class and the canonical   *)
(* decompositions behind unicodedata.normalize.                            *)
(***************************************************************************)
Uni ==
  [ digit1 |-> 49, bang |-> 33, eacute |-> 233, acute |-> 769,
    deva_na |-> 2344, deva_nnna |-> 2345, deva_nukta |-> 2364,
    deva_udatta |-> 2385, deva_anudatta |-> 2386,
    mal_para |-> 3407, jong_nieun |-> 4530, zwsp |-> 8203,
    deva_ext_zero |-> 43232, deva_ext_a_free |-> 72464, upper_t |-> 84 ]

\* unicodedata.category(ch), as <<major class, subclass>>
category(ch) ==
  CASE ch \in {Ch.a, Ch.b, Ch.c, Ch.d, Ch.e, Ch.x, Ch.y, Ch.z, Uni.eacute}
         -> <<"L", "l">>
    [] ch = Uni.upper_t -> <<"L", "u">>
    [] ch \in {Uni.deva_na, Uni.deva_nnna, Uni.jong_nieun} -> <<"L", "o">>
    [] ch = Uni.digit1 -> <<"N", "d">>
    [] ch \in {Uni.bang, Ch.star} -> <<"P", "o">>
    [] ch \in {Ch.lpar, Ch.lbr} -> <<"P", "s">>
    [] ch \in {Ch.rpar, Ch.rbr} -> <<"P", "e">>
    [] ch = Ch.sp -> <<"Z", "s">>
    [] ch = Ch.nl -> <<"C", "c">>
    [] ch = Uni.zwsp -> <<"C", "f">>
    [] ch = Uni.deva_ext_a_free -> <<"C", "n">>
    [] ch = Ch.dollar -> <<"S", "c">>
    [] ch \in {Ch.lt, Ch.gt} -> <<"S", "m">>
    [] ch = Uni.mal_para -> <<"S", "o">>
    [] ch \in {Uni.acute, Uni.deva_nukta, Uni.deva_udatta, Uni.deva_anudatta,
               Uni.deva_ext_zero} -> <<"M", "n">>

\* unicodedata.combining(ch)
combining(ch) ==
  CASE ch \in {Uni.acute, Uni.deva_udatta, Uni.deva_ext_zero} -> 230
    [] ch = Uni.deva_anudatta -> 220
    [] ch = Uni.deva_nukta -> 7
    [] OTHER -> 0

\* the full canonical decomposition of one character
decomposition(ch) ==
  CASE ch = Uni.eacute -> <<Ch.e, Uni.acute>>
    [] ch = Uni.deva_nnna -> <<Uni.deva_na, Uni.deva_nukta>>
    [] OTHER -> <<ch>>

\* the primary composites: <<first, last>> -> composite
Composites ==
  { <<Ch.e, Uni.acute, Uni.eacute>>,
    <<Uni.deva_na, Uni.deva_nukta, Uni.deva_nnna>> }

HasComposite(first, last) == \E t \in Composites : t[1] = first /\ t[2] = last
Composite(first, last) ==
  (CHOOSE t \in Composites : t[1] = first /\ t[2] = last)[3]
IsNfcFirst(ch) == \E t \in Composites : t[1] = ch

RECURSIVE Decompose(_)
Decompose(s) ==
  IF s = <<>> THEN <<>> ELSE decomposition(Head(s)) \o Decompose(Tail(s))

\* canonical ordering: sort every run of combining characters by class
RECURSIVE CanonicalOrder(_)
CanonicalOrder(s) ==
  LET bad == {k \in 1..(Len(s) - 1) :
                combining(s[k + 1]) # 0 /\ combining(s[k]) > combining(s[k + 1])}
  IN IF bad = {} THEN s
     ELSE LET k == CHOOSE m \in bad : \A o \in bad : m <= o
          IN CanonicalOrder([s EXCEPT ![k] = s[k + 1], ![k + 1] = s[k]])

\* unicodedata.normalize("NFD", s)
NFD(s) == CanonicalOrder(Decompose(s))

\* The look-ahead of the canonical composition from the character `first`:
\* rest is what follows it, comb the class of the last character passed
\* over, kept the characters passed over. Returns <<first, what follows>>.
RECURSIVE ComposeAhead(_, _, _, _)
ComposeAhead(first, rest, comb, kept) ==
  IF rest = <<>> THEN <<first, kept>>
  ELSE LET ch == Head(rest)
           comb1 == combining(ch)
       IN IF comb # 0 /\ comb1 = 0 THEN <<first, kept \o rest>>
          ELSE IF comb # 0 /\ comb >= comb1
               THEN ComposeAhead(first, Tail(rest), comb, Append(kept, ch))
          ELSE IF HasComposite(first, ch)
               THEN IF IsNfcFirst(Composite(first, ch))
                    THEN ComposeAhead(Composite(first, ch), Tail(rest), comb, kept)
                    ELSE <<Composite(first, ch), kept \o Tail(rest)>>
          ELSE IF comb1 = 0 THEN <<first, kept \o rest>>
          ELSE ComposeAhead(first, Tail(rest), comb1, Append(kept, ch))

RECURSIVE Compose(_)
Compose(s) ==
  IF s = <<>> THEN <<>>
  ELSE IF ~IsNfcFirst(Head(s)) THEN <<Head(s)>> \o Compose(Tail(s))
  ELSE LET r == ComposeAhead(Head(s), Tail(s), 0, <<>>)
       IN <<r[1]>> \o Compose(r[2])

NFCNoCompose(s) == s

\* unicodedata.normalize("NFC", s)
NFC(s) == Compose(NFD(s))

(***************************************************************************)
(* remove_special_characters                                               *)
(***************************************************************************)
\* Python's <= on str: lexicographic on code points
RECURSIVE StrLE(_, _)
StrLE(s, t) ==
  IF s = <<>> THEN TRUE
  ELSE IF t = <<>> THEN FALSE
  ELSE IF Head(s) # Head(t) THEN Head(s) < Head(t)
  ELSE StrLE(Tail(s), Tail(t))

Between(lo, ch, hi) == StrLE(lo, <<ch>>) /\ StrLE(<<ch>>, hi)

\* The range literals of is_valid_char. A \u escape takes four hex digits:
\* '\u11B00' is the two characters U+11B0 '0', '\u11B4F' is U+11B4 'F'.
MalayalamLo == <<3328>>
MalayalamHi == <<3455>>
MalayalamDigitLo == <<3430>>
MalayalamDigitHi == <<3439>>
DevanagariLo == <<2304>>
DevanagariHi == <<2431>>
DevanagariDigitLo == <<2406>>
DevanagariDigitHi == <<2415>>
DevanagariExtLo == <<43232>>
DevanagariExtHi == <<43263>>
DevanagariExtALo == <<4528, 48>>
DevanagariExtAHi == <<4532, 70>>

is_valid_char(ch) ==
  IF ch = Ch.star THEN FALSE
  ELSE \/ category(ch)[1] = "L"
       \/ category(ch)[1] = "N"
       \/ category(ch)[1] = "P"
       \/ isspace(ch)
       \/ Between(MalayalamLo, ch, MalayalamHi)
       \/ Between(MalayalamDigitLo, ch, MalayalamDigitHi)
       \/ Between(DevanagariLo, ch, DevanagariHi)
       \/ Between(DevanagariDigitLo, ch, DevanagariDigitHi)
       \/ Between(DevanagariExtLo, ch, DevanagariExtHi)
       \/ Between(DevanagariExtALo, ch, DevanagariExtAHi)

FilterValid(s) == SelectSeq(s, is_valid_char)

remove_special_characters(text) ==
  IF text.kind # "str" THEN Raise("TypeError")
  ELSE Return(Str(NFC(FilterValid(NFD(text.v)))))

(***************************************************************************)
(* filter_asterisks                                                        *)
(***************************************************************************)
IsStar(ch) == ch = Ch.star

\* Index of the first asterisk of s at or after position k (0 if none).
NextStar(s, k) ==
  LET at == {m \in k..Len(s) : IsStar(s[m])}
  IN IF at = {} THEN 0 ELSE CHOOSE m \in at : \A o \in at : m <= o

\* s[k..] opens with n asterisks.
StarsAt(s, k, n) == k + n - 1 <= Len(s) /\ \A m \in k..(k + n - 1) : IsStar(s[m])

\* End of the match of \*{n}([^*]+)\*{n} that starts at position k (0 if none).
SpanEnd(s, k, n) ==
  IF ~StarsAt(s, k, n) THEN 0
  ELSE IF k + n > Len(s) \/ IsStar(s[k + n]) THEN 0
  ELSE LET j == NextStar(s, k + n)
       IN IF j # 0 /\ StarsAt(s, j, n) THEN j + n - 1 ELSE 0

\* re.sub(r"\*{n}([^*]+)\*{n}", "", s) from position k on: leftmost matches,
\* not overlapping, the search resuming after each match.
RECURSIVE RemoveSpansFrom(_, _, _)
RemoveSpansFrom(s, k, n) ==
  IF k > Len(s) THEN <<>>
  ELSE IF SpanEnd(s, k, n) # 0 THEN RemoveSpansFrom(s, SpanEnd(s, k, n) + 1, n)
  ELSE <<s[k]>> \o RemoveSpansFrom(s, k + 1, n)

\* re.sub(r"\*\*([^*]+)\*\*", "", s)
RemoveDouble(s) == RemoveSpansFrom(s, 1, 2)

RemoveSingleSkipped(s) == s

\* re.sub(r"\*([^*]+)\*", "", s)
RemoveSingle(s) == RemoveSpansFrom(s, 1, 1)

filter_asterisks(text) ==
  IF text.kind # "str" THEN Raise("TypeError")
  ELSE Return(Str(CleanSpaces(RemoveSingle(RemoveDouble(text.v)))))

(***************************************************************************)
(* tts_filter                                                              *)
(***************************************************************************)
\* translator.translate(text): the translation of a text is a text
translate(s) == <<Uni.upper_t>> \o s

\* Is the if-block of the stage entered, for the arguments args?
StageOn(stage, args) ==
  CASE stage = "asterisks" -> args.ignore_asterisks
    [] stage = "brackets" -> args.ignore_brackets
    [] stage = "parentheses" -> args.ignore_parentheses
    [] stage = "special" -> args.remove_special_char
    [] stage = "angle" -> args.ignore_angle_brackets
    [] stage = "translate" -> args.translator

\* The outcomes the call made by a stage can have on text t; a stage in
\* faults is made to raise.
StageOutcomes(stage, t, faults) ==
  IF stage \in faults THEN {Raise("Exception")}
  ELSE CASE stage = "asterisks" -> {filter_asterisks(t)}
         [] stage = "brackets" -> {filter_brackets(t)}
         [] stage = "parentheses" -> {filter_parentheses(t)}
         [] stage = "special" -> {remove_special_characters(t)}
         [] stage = "angle" -> {filter_angle_brackets(t)}
         [] stage = "translate" ->
              IF t.kind = "str" THEN {Return(Str(translate(t.v)))}
              ELSE {Raise("TypeError"), Return(t)}

HandledLosesText(t, outcome) == outcome.value

\* try: text = call(text) / except Exception: log, keep text
Handled(t, outcome) == IF outcome.raised = "" THEN outcome.value ELSE t

AfterStageAngleFirst(stage) ==
  CASE stage = "asterisks" -> "brackets"
    [] stage = "brackets" -> "parentheses"
    [] stage = "parentheses" -> "angle"
    [] stage = "angle" -> "special"
    [] stage = "special" -> "translate"
    [] stage = "translate" -> "return"

\* The statement that follows the if-block of a stage.
AfterStage(stage) ==
  CASE stage = "asterisks" -> "brackets"
    [] stage = "brackets" -> "parentheses"
    [] stage = "parentheses" -> "special"
    [] stage = "special" -> "angle"
    [] stage = "angle" -> "translate"
    [] stage = "translate" -> "return"

\* The text after the if-block of a stage (one outcome per str text).
StageResult(stage, t, args, faults) ==
  IF StageOn(stage, args)
  THEN Handled(t, CHOOSE o \in StageOutcomes(stage, t, faults) : TRUE)
  ELSE t

RECURSIVE RunFrom(_, _, _, _)
RunFrom(stage, t, args, faults) ==
  IF stage = "return" THEN Return(t)
  ELSE RunFrom(AfterStage(stage), StageResult(stage, t, args, faults), args, faults)

\* tts_filter(text, ...) as a function of its arguments, for str text
tts_filter(t, args, faults) == RunFrom("asterisks", t, args, faults)

(***************************************************************************)
(* State: the locals of one call of each function.                         *)
(***************************************************************************)
VARIABLES
  n_text,    \* _filter_nested: the argument text
  n_pair,    \* _filter_nested: <<left, right>>
  n_pc,      \* _filter_nested: "idle", "entry", "loop" or "done"
  n_i,       \* _filter_nested: characters of text consumed by the loop
  depth,     \* _filter_nested: the depth counter
  result,    \* _filter_nested: the list of kept characters
  n_ret,     \* _filter_nested: the outcome of the call
  s_text,           \* remove_special_characters: the argument text
  s_pc,             \* remove_special_characters: position in the body
  normalized_text,  \* remove_special_characters: the NFD form
  filtered_text,    \* remove_special_characters: the characters kept
  s_ret,            \* remove_special_characters: the outcome of the call
  s_calls,          \* outcomes of the calls made so far, each on the last result
  a_text,    \* filter_asterisks: the argument text
  a_pc,      \* filter_asterisks: position in the body
  a_filtered,\* filter_asterisks: the local filtered_text
  a_ret,     \* filter_asterisks: the outcome of the call
  p_input,   \* tts_filter: the argument text
  p_args,    \* tts_filter: the five toggles and whether a translator is given
  p_faults,  \* stages whose call is made to raise
  text,      \* tts_filter: the local text
  p_pc,      \* tts_filter: the stage about to run, "return" or "done"
  p_trace,   \* the stage calls made, in order: [stage, arg, ok, out]
  p_ret      \* tts_filter: the outcome of the call

nestedVars == <<n_text, n_pair, n_pc, n_i, depth, result, n_ret>>
specialVars == <<s_text, s_pc, normalized_text, filtered_text, s_ret, s_calls>>
asteriskVars == <<a_text, a_pc, a_filtered, a_ret>>
pipeVars == <<p_input, p_args, p_faults, text, p_pc, p_trace, p_ret>>
vars == <<nestedVars, specialVars, asteriskVars, pipeVars>>

\* No call of the function is in progress.
NestedIdle ==
  /\ n_text = PyNone
  /\ n_pair = BracketPair
  /\ n_pc = "idle"
  /\ n_i = 0
  /\ depth = 0
  /\ result = <<>>
  /\ n_ret = Pending

SpecialIdle ==
  /\ s_text = PyNone
  /\ s_pc = "idle"
  /\ normalized_text = <<>>
  /\ filtered_text = <<>>
  /\ s_ret = Pending
  /\ s_calls = <<>>

AsteriskIdle ==
  /\ a_text = PyNone
  /\ a_pc = "idle"
  /\ a_filtered = <<>>
  /\ a_ret = Pending

NoArgs ==
  [ignore_asterisks |-> FALSE, ignore_brackets |-> FALSE,
   ignore_parentheses |-> FALSE, remove_special_char |-> FALSE,
   ignore_angle_brackets |-> FALSE, translator |-> FALSE]

PipeIdle ==
  /\ p_input = PyNone
  /\ p_args = NoArgs
  /\ p_faults = {}
  /\ text = PyNone
  /\ p_pc = "idle"
  /\ p_trace = <<>>
  /\ p_ret = Pending

(***************************************************************************)
(* Calls of filter_brackets / filter_parentheses / filter_angle_brackets,  *)
(* stepped through the loop of _filter_nested.                             *)
(***************************************************************************)
DelimiterPairs == {BracketPair, ParenPair, AnglePair}

\* The worked examples of the nested stripper.
ExBracketsNested == <<Ch.a, Ch.lbr, Ch.b, Ch.lbr, Ch.c, Ch.rbr, Ch.d, Ch.rbr, Ch.e>>
ExParens == <<Ch.x, Ch.lpar, Ch.y, Ch.rpar, Ch.z>>
ExUnmatchedClose == <<Ch.a, Ch.rbr, Ch.b>>
ExUnmatchedOpen == <<Ch.a, Ch.lbr, Ch.b, Ch.c>>
NestedExamples == {ExBracketsNested, ExParens, ExUnmatchedClose, ExUnmatchedOpen}

NestedChars(pair) == {Ch.a, Ch.b, Ch.sp, Ch.nl, pair[1], pair[2]}

NestedArgs(pair) ==
  {Str(s) : s \in SeqsUpTo(NestedChars(pair), MaxNestedLen) \cup NestedExamples}
    \cup {PyNone}

NestedInit ==
  /\ n_pair \in DelimiterPairs
  /\ n_text \in NestedArgs(n_pair)
  /\ n_pc = "entry"
  /\ n_i = 0
  /\ depth = 0
  /\ result = <<>>
  /\ n_ret = Pending
  /\ SpecialIdle
  /\ AsteriskIdle
  /\ PipeIdle

\* if not isinstance(text, str): raise TypeError
NestedReject ==
  /\ n_pc = "entry"
  /\ n_text.kind # "str"
  /\ n_ret' = Raise("TypeError")
  /\ n_pc' = "done"
  /\ UNCHANGED <<n_text, n_pair, n_i, depth, result>>
  /\ UNCHANGED <<specialVars, asteriskVars, pipeVars>>

\* if not text: return text
NestedEmpty ==
  /\ n_pc = "entry"
  /\ n_text.kind = "str"
  /\ n_text.v = <<>>
  /\ n_ret' = Return(n_text)
  /\ n_pc' = "done"
  /\ UNCHANGED <<n_text, n_pair, n_i, depth, result>>
  /\ UNCHANGED <<specialVars, asteriskVars, pipeVars>>

\* result = []; depth = 0
NestedBegin ==
  /\ n_pc = "entry"
  /\ n_text.kind = "str"
  /\ n_text.v # <<>>
  /\ depth' = ScanStart.depth
  /\ result' = ScanStart.result
  /\ n_i' = 0
  /\ n_pc' = "loop"
  /\ UNCHANGED <<n_text, n_pair, n_ret>>
  /\ UNCHANGED <<specialVars, asteriskVars, pipeVars>>

\* one iteration of the for loop
ScanStep ==
  /\ n_pc = "loop"
  /\ n_i < Len(n_text.v)
  /\ LET st == ScanChar([depth |-> depth, result |-> result],
                        n_text.v[n_i + 1], n_pair[1], n_pair[2])
     IN /\ depth' = st.depth
        /\ result' = st.result
  /\ n_i' = n_i + 1
  /\ UNCHANGED <<n_text, n_pair, n_pc, n_ret>>
  /\ UNCHANGED <<specialVars, asteriskVars, pipeVars>>

\* the join, the whitespace pass and the return
NestedFinish ==
  /\ n_pc = "loop"
  /\ n_i = Len(n_text.v)
  /\ n_ret' = Return(Str(CleanSpaces(result)))
  /\ n_pc' = "done"
  /\ UNCHANGED <<n_text, n_pair, n_i, depth, result>>
  /\ UNCHANGED <<specialVars, asteriskVars, pipeVars>>

NestedNext ==
  \/ NestedReject
  \/ NestedEmpty
  \/ NestedBegin
  \/ ScanStep
  \/ NestedFinish

SpecNested == NestedInit /\ [][NestedNext]_vars

(***************************************************************************)
(* Calls of remove_special_characters, each on the result of the last.     *)
(***************************************************************************)
SpecialChars ==
  {Ch.a, Ch.sp, Ch.star, Ch.dollar, Uni.digit1, Uni.bang, Uni.eacute,
   Uni.acute, Uni.deva_na, Uni.deva_nnna, Uni.deva_nukta, Uni.deva_udatta,
   Uni.deva_anudatta, Uni.mal_para, Uni.jong_nieun, Uni.zwsp,
   Uni.deva_ext_zero, Uni.deva_ext_a_free}

SpecialArgs == {Str(s) : s \in SeqsUpTo(SpecialChars, MaxSpecialLen)} \cup {PyNone}

SpecialInit ==
  /\ s_text \in SpecialArgs
  /\ s_pc = "entry"
  /\ normalized_text = <<>>
  /\ filtered_text = <<>>
  /\ s_ret = Pending
  /\ s_calls = <<>>
  /\ NestedIdle
  /\ AsteriskIdle
  /\ PipeIdle

\* unicodedata.normalize("NFD", text) raises TypeError for a non-str
SpecialReject ==
  /\ s_pc = "entry"
  /\ s_text.kind # "str"
  /\ s_ret' = Raise("TypeError")
  /\ s_calls' = Append(s_calls, Raise("TypeError"))
  /\ s_pc' = "done"
  /\ UNCHANGED <<s_text, normalized_text, filtered_text>>
  /\ UNCHANGED <<nestedVars, asteriskVars, pipeVars>>

\* normalized_text = unicodedata.normalize("NFD", text)
SpecialNormalize ==
  /\ s_pc = "entry"
  /\ s_text.kind = "str"
  /\ normalized_text' = NFD(s_text.v)
  /\ s_pc' = "normalized"
  /\ UNCHANGED <<s_text, filtered_text, s_ret, s_calls>>
  /\ UNCHANGED <<nestedVars, asteriskVars, pipeVars>>

\* filtered_text = "".join(char for char in normalized_text if is_valid_char(char))
SpecialFilter ==
  /\ s_pc = "normalized"
  /\ filtered_text' = FilterValid(normalized_text)
  /\ s_pc' = "filtered"
  /\ UNCHANGED <<s_text, normalized_text, s_ret, s_calls>>
  /\ UNCHANGED <<nestedVars, asteriskVars, pipeVars>>

\* return unicodedata.normalize("NFC", filtered_text)
SpecialReturn ==
  /\ s_pc = "filtered"
  /\ s_ret' = Return(Str(NFC(filtered_text)))
  /\ s_calls' = Append(s_calls, Return(Str(NFC(filtered_text))))
  /\ s_pc' = "done"
  /\ UNCHANGED <<s_text, normalized_text, filtered_text>>
  /\ UNCHANGED <<nestedVars, asteriskVars, pipeVars>>

\* the caller applies the function again, to what it returned
SpecialAgain ==
  /\ s_pc = "done"
  /\ s_ret.raised = ""
  /\ Len(s_calls) < MaxSpecialCalls
  /\ s_text' = s_ret.value
  /\ s_pc' = "entry"
  /\ normalized_text' = <<>>
  /\ filtered_text' = <<>>
  /\ s_ret' = Pending
  /\ UNCHANGED s_calls
  /\ UNCHANGED <<nestedVars, asteriskVars, pipeVars>>

SpecialNext ==
  \/ SpecialReject
  \/ SpecialNormalize
  \/ SpecialFilter
  \/ SpecialReturn
  \/ SpecialAgain

SpecSpecial == SpecialInit /\ [][SpecialNext]_vars

(***************************************************************************)
(* Calls of filter_asterisks.                                              *)
(***************************************************************************)
AsteriskChars == {Ch.a, Ch.b, Ch.sp, Ch.star}

AsteriskArgs == {Str(s) : s \in SeqsUpTo(AsteriskChars, MaxAsteriskLen)} \cup {PyNone}

AsteriskInit ==
  /\ a_text \in AsteriskArgs
  /\ a_pc = "entry"
  /\ a_filtered = <<>>
  /\ a_ret = Pending
  /\ NestedIdle
  /\ SpecialIdle
  /\ PipeIdle

\* re.sub raises TypeError for a non-str
AsteriskReject ==
  /\ a_pc = "entry"
  /\ a_text.kind # "str"
  /\ a_ret' = Raise("TypeError")
  /\ a_pc' = "done"
  /\ UNCHANGED <<a_text, a_filtered>>
  /\ UNCHANGED <<nestedVars, specialVars, pipeVars>>

\* filtered_text = re.sub(r"\*\*([^*]+)\*\*", "", text)
AsteriskDouble ==
  /\ a_pc = "entry"
  /\ a_text.kind = "str"
  /\ a_filtered' = RemoveDouble(a_text.v)
  /\ a_pc' = "double_removed"
  /\ UNCHANGED <<a_text, a_ret>>
  /\ UNCHANGED <<nestedVars, specialVars, pipeVars>>

\* filtered_text = re.sub(r"\*([^*]+)\*", "", filtered_text)
AsteriskSingle ==
  /\ a_pc = "double_removed"
  /\ a_filtered' = RemoveSingle(a_filtered)
  /\ a_pc' = "single_removed"
  /\ UNCHANGED <<a_text, a_ret>>
  /\ UNCHANGED <<nestedVars, specialVars, pipeVars>>

\* filtered_text = re.sub(r"\s+", " ", filtered_text).strip(); return
AsteriskReturn ==
  /\ a_pc = "single_removed"
  /\ a_ret' = Return(Str(CleanSpaces(a_filtered)))
  /\ a_pc' = "done"
  /\ UNCHANGED <<a_text, a_filtered>>
  /\ UNCHANGED <<nestedVars, specialVars, pipeVars>>

AsteriskNext ==
  \/ AsteriskReject
  \/ AsteriskDouble
  \/ AsteriskSingle
  \/ AsteriskReturn

SpecAsterisks == AsteriskInit /\ [][AsteriskNext]_vars

(***************************************************************************)
(* Calls of tts_filter.                                                    *)
(***************************************************************************)
Stages == {"asterisks", "brackets", "parentheses", "special", "angle", "translate"}

PipeChars == {Ch.a, Ch.b, Ch.lt, Ch.gt, Ch.star}

\* Longer texts, with work for every stage.
ExAngle == <<Ch.a, Ch.lt, Ch.b, Ch.gt, Ch.c>>
ExAllStages ==
  <<Ch.star, Ch.a, Ch.star, Ch.lbr, Ch.b, Ch.rbr, Ch.lpar, Ch.c, Ch.rpar,
    Ch.dollar, Ch.lt, Ch.d, Ch.gt, Ch.e>>
PipeExamples == {ExAngle, ExAllStages}

PipeTexts ==
  {Str(s) : s \in SeqsUpTo(PipeChars, MaxPipeLen) \cup PipeExamples} \cup {PyNone}

PipeArgs ==
  [ignore_asterisks : BOOLEAN, ignore_brackets : BOOLEAN,
   ignore_parentheses : BOOLEAN, remove_special_char : BOOLEAN,
   ignore_angle_brackets : BOOLEAN, translator : BOOLEAN]

PipeInit ==
  /\ p_input \in PipeTexts
  /\ p_args \in PipeArgs
  /\ p_faults \in SUBSET {st \in Stages : StageOn(st, p_args)}
  /\ text = p_input
  /\ p_pc = "asterisks"
  /\ p_trace = <<>>
  /\ p_ret = Pending
  /\ NestedIdle
  /\ SpecialIdle
  /\ AsteriskIdle

\* The body of "if <toggle>: try: text = <call>(text) / except Exception:
\* log and skip", and the move to the statement after it.
StageBlock(stage) ==
  /\ p_pc' = AfterStage(stage)
  /\ IF StageOn(stage, p_args)
     THEN \E outcome \in StageOutcomes(stage, text, p_faults) :
            /\ text' = Handled(text, outcome)
            /\ p_trace' = Append(p_trace,
                 [stage |-> stage, arg |-> text, ok |-> outcome.raised = "",
                  out |-> outcome.value])
     ELSE UNCHANGED <<text, p_trace>>
  /\ UNCHANGED <<p_input, p_args, p_faults, p_ret>>
  /\ UNCHANGED <<nestedVars, specialVars, asteriskVars>>

\* if ignore_asterisks: text = filter_asterisks(text)
StageAsterisks ==
  /\ p_pc = "asterisks"
  /\ StageBlock("asterisks")

\* if ignore_brackets: text = filter_brackets(text)
StageBrackets ==
  /\ p_pc = "brackets"
  /\ StageBlock("brackets")

\* if ignore_parentheses: text = filter_parentheses(text)
StageParentheses ==
  /\ p_pc = "parentheses"
  /\ StageBlock("parentheses")

\* if remove_special_char: text = remove_special_characters(text)
StageSpecial ==
  /\ p_pc = "special"
  /\ StageBlock("special")

\* if ignore_angle_brackets: text = filter_angle_brackets(text)
StageAngle ==
  /\ p_pc = "angle"
  /\ StageBlock("angle")

\* if translator: text = translator.translate(text)
StageTranslate ==
  /\ p_pc = "translate"
  /\ StageBlock("translate")

\* return text
PipeReturn ==
  /\ p_pc = "return"
  /\ p_ret' = Return(text)
  /\ p_pc' = "done"
  /\ UNCHANGED <<p_input, p_args, p_faults, text, p_trace>>
  /\ UNCHANGED <<nestedVars, specialVars, asteriskVars>>

Next ==
  \/ StageAsterisks
  \/ StageBrackets
  \/ StageParentheses
  \/ StageSpecial
  \/ StageAngle
  \/ StageTranslate
  \/ PipeReturn

Spec == PipeInit /\ [][Next]_vars

(***************************************************************************)
(* Properties of the nested stripper.                                      *)
(***************************************************************************)
NestedDone == n_pc = "done"
NestedOut == n_ret.value.v

Count(s, lo, hi, ch) == Cardinality({m \in lo..hi : s[m] = ch})

Max(S) == CHOOSE m \in S : \A o \in S : o <= m

\* Nesting depth after the first n characters of s: the largest excess of
\* open over close symbols in a suffix of s[1..n] (0 for the empty suffix).
DepthAfter(s, n, pair) ==
  Max({Count(s, j + 1, n, pair[1]) - Count(s, j + 1, n, pair[2]) : j \in 0..n})

\* Positions of the non-delimiter characters at nesting depth 0.
Depth0Positions(s, pair) ==
  {k \in 1..Len(s) : s[k] \notin {pair[1], pair[2]} /\ DepthAfter(s, k - 1, pair) = 0}

\* The characters of s at the positions K, in their order in s.
Pick(s, K) ==
  [n \in 1..Cardinality(K) |->
     s[CHOOSE k \in K : Cardinality({j \in K : j <= k}) = n]]

NotSpace(ch) == ~isspace(ch)
Visible(s) == SelectSeq(s, NotSpace)

\* Position in s of its n-th non-whitespace character.
VisiblePos(s, n) ==
  CHOOSE k \in 1..Len(s) :
    /\ NotSpace(s[k])
    /\ Cardinality({j \in 1..k : NotSpace(s[j])}) = n

\* out is s with every whitespace run collapsed to one space and the
\* leading and trailing whitespace removed.
IsCleaned(out, s) ==
  /\ Visible(out) = Visible(s)
  /\ \A k \in 1..Len(out) :
       isspace(out[k]) =>
         /\ out[k] = Ch.sp
         /\ 1 < k
         /\ k < Len(out)
         /\ NotSpace(out[k + 1])
  /\ \A n \in 1..(Len(Visible(s)) - 1) :
       (VisiblePos(out, n + 1) > VisiblePos(out, n) + 1)
         <=> (VisiblePos(s, n + 1) > VisiblePos(s, n) + 1)

\* C1: for every text and each delimiter pair the nested stripper returns the
\* non-delimiter characters at nesting depth 0, in order, with whitespace runs
\* collapsed to one space and the ends trimmed; filter_brackets("a[bc") = "a".
C1_Depth0Kept ==
  (NestedDone /\ n_text.kind = "str") =>
    /\ n_ret.raised = ""
    /\ n_ret.value.kind = "str"
    /\ IsCleaned(NestedOut, Pick(n_text.v, Depth0Positions(n_text.v, n_pair)))
    /\ (n_text.v = ExUnmatchedOpen /\ n_pair = BracketPair) => NestedOut = <<Ch.a>>

\* C1 witness: filter_brackets("a[bc") has returned "a".
C1_Witness ==
  /\ NestedDone
  /\ n_pair = BracketPair
  /\ n_text = Str(ExUnmatchedOpen)
  /\ n_ret = Return(Str(<<Ch.a>>))

NestedCallOf(pair, s) == NestedDone /\ n_pair = pair /\ n_text = Str(s)

\* C2 (as claimed): the worked examples leave a single space where the
\* removed region or the dropped close symbol stood: "a e", "x z", "a b".
C2_ExamplesWithSpace ==
  /\ NestedCallOf(BracketPair, ExBracketsNested) => NestedOut = <<Ch.a, Ch.sp, Ch.e>>
  /\ NestedCallOf(ParenPair, ExParens) => NestedOut = <<Ch.x, Ch.sp, Ch.z>>
  /\ NestedCallOf(BracketPair, ExUnmatchedClose) => NestedOut = <<Ch.a, Ch.sp, Ch.b>>

\* C2 (amended): on the worked examples nothing is left in place of the
\* removed region or the dropped close symbol: "ae", "xz", "ab".
C2_ExamplesJoined ==
  /\ NestedCallOf(BracketPair, ExBracketsNested) => n_ret = Return(Str(<<Ch.a, Ch.e>>))
  /\ NestedCallOf(ParenPair, ExParens) => n_ret = Return(Str(<<Ch.x, Ch.z>>))
  /\ NestedCallOf(BracketPair, ExUnmatchedClose) => n_ret = Return(Str(<<Ch.a, Ch.b>>))

\* C2 witness: filter_brackets("a[b[c]d]e") has returned.
C2_Witness == NestedCallOf(BracketPair, ExBracketsNested) /\ n_ret.raised = ""

\* What one iteration of the scan does to depth and result, case by case.
ScanStepEffect ==
  (n_pc = "loop" /\ n_i' = n_i + 1) =>
    LET ch == n_text.v[n_i'] IN
    /\ (ch = n_pair[1]) => (depth' = depth + 1 /\ result' = result)
    /\ (ch = n_pair[2] /\ depth > 0) => (depth' = depth - 1 /\ result' = result)
    /\ (ch = n_pair[2] /\ depth = 0) => (depth' = 0 /\ result' = result)
    /\ (ch \notin {n_pair[1], n_pair[2]}) =>
         /\ depth' = depth
         /\ result' = IF depth = 0 THEN Append(result, ch) ELSE result

\* C9: during the scan the depth counter is >= 0: it starts at 0, an open
\* symbol increments it, a close symbol decrements it only when it is > 0, a
\* close symbol at depth 0 leaves it at 0 and is not copied, and a character
\* is appended only when it is neither delimiter and the depth is 0.
C9_DepthNeverNegative ==
  /\ [](depth >= 0)
  /\ []((n_pc = "loop" /\ n_i = 0) => (depth = 0 /\ result = <<>>))
  /\ [][ScanStepEffect]_vars

\* C9 witness: the scan has just passed a close symbol met at depth 0.
C9_Witness ==
  /\ n_pc = "loop"
  /\ n_i = 2
  /\ n_text.v[1] = Ch.a
  /\ n_text.v[2] = n_pair[2]
  /\ depth = 0
  /\ result = <<Ch.a>>

(***************************************************************************)
(* Properties of remove_special_characters.                                *)
(***************************************************************************)
MalayalamBlock == 3328..3455
DevanagariBlock == 2304..2431
DevanagariExtendedBlock == 43232..43263
DevanagariExtendedABlock == 72448..72527

\* The characters the contract of remove_special_characters keeps.
ContractKeeps(ch) ==
  /\ ch # Ch.star
  /\ \/ category(ch)[1] \in {"L", "N", "P"}
     \/ isspace(ch)
     \/ ch \in MalayalamBlock
     \/ ch \in DevanagariBlock
     \/ ch \in DevanagariExtendedBlock
     \/ ch \in DevanagariExtendedABlock

\* C6: a character of the decomposed input is kept if and only if it is not
\* '*' and is a letter, number, punctuation or whitespace, or lies in the
\* Malayalam, Devanagari, Devanagari Extended or Devanagari Extended-A block.
C6_KeepsContractChars ==
  (s_pc \in {"filtered", "done"}) =>
    filtered_text = SelectSeq(normalized_text, ContractKeeps)

\* C7: remove_special_characters applied to its own result returns it unchanged.
C7_Idempotent ==
  (s_pc = "done" /\ Len(s_calls) = 2) => s_calls[2] = s_calls[1]

\* C7 witness: the second call has returned, on a first result in which the
\* removal of a character had brought two marks together for reordering.
C7_Witness ==
  /\ s_pc = "done"
  /\ Len(s_calls) = 2
  /\ s_calls[1] = Return(Str(<<Uni.deva_anudatta, Uni.deva_udatta>>))
  /\ s_calls[2].raised = ""

(***************************************************************************)
(* Properties of filter_asterisks.                                         *)
(***************************************************************************)
\* s contains *x* with x a non-empty run of non-asterisk characters.
HasStarSpan(s) ==
  \E i, j \in 1..Len(s) :
    /\ i + 1 < j
    /\ IsStar(s[i])
    /\ IsStar(s[j])
    /\ \A k \in (i + 1)..(j - 1) : ~IsStar(s[k])

HasAdjacentStars(s) == \E i \in 1..(Len(s) - 1) : IsStar(s[i]) /\ IsStar(s[i + 1])

StarCount(s) == Cardinality({i \in 1..Len(s) : IsStar(s[i])})

\* C8 (as claimed): the output of filter_asterisks contains no span *x*.
C8_NoStarSpanLeft ==
  (a_pc = "done" /\ a_text.kind = "str") => ~HasStarSpan(a_ret.value.v)

\* C8 (amended): when the text left by the double-asterisk pass has no two
\* adjacent asterisks, the output contains no span *x* and at most one
\* asterisk.
C8_NoStarSpanLeftUnlessJoined ==
  (a_pc = "done" /\ a_text.kind = "str" /\ ~HasAdjacentStars(RemoveDouble(a_text.v))) =>
    /\ ~HasStarSpan(a_ret.value.v)
    /\ StarCount(a_ret.value.v) <= 1

\* C8 witness: filter_asterisks("*a*b*") has returned "b*".
C8_Witness ==
  /\ a_pc = "done"
  /\ a_text = Str(<<Ch.star, Ch.a, Ch.star, Ch.b, Ch.star>>)
  /\ a_ret = Return(Str(<<Ch.b, Ch.star>>))

(***************************************************************************)
(* Properties of tts_filter.                                               *)
(***************************************************************************)
\* The order of the stages, as documented.
StageOrder ==
  <<"asterisks", "brackets", "parentheses", "special", "angle", "translate">>

Rank(stage) == CHOOSE n \in 1..Len(StageOrder) : StageOrder[n] = stage

EnabledStages(args) == {st \in Stages : StageOn(st, args)}

AllOn ==
  [ignore_asterisks |-> TRUE, ignore_brackets |-> TRUE,
   ignore_parentheses |-> TRUE, remove_special_char |-> TRUE,
   ignore_angle_brackets |-> TRUE, translator |-> TRUE]

\* The text the k-th stage call should receive: the output of the last
\* call before it that succeeded, the input of tts_filter if there is none.
LastGoodText(k) ==
  LET good == {j \in 1..(k - 1) : p_trace[j].ok}
  IN IF good = {} THEN p_input ELSE p_trace[Max(good)].out

\* C3: the enabled stages run in the order asterisks, brackets, parentheses,
\* special characters, angle brackets, translation; each at most once, a
\* disabled stage never, each on the text of the last stage that succeeded.
C3_FixedStageOrder ==
  /\ \A i, j \in 1..Len(p_trace) :
       i < j => Rank(p_trace[i].stage) < Rank(p_trace[j].stage)
  /\ \A k \in 1..Len(p_trace) :
       /\ StageOn(p_trace[k].stage, p_args)
       /\ p_trace[k].arg = LastGoodText(k)
  /\ (p_pc = "done") =>
       {p_trace[k].stage : k \in 1..Len(p_trace)} = EnabledStages(p_args)

\* C3 witness: a call with every stage enabled has run all six, one failing.
C3_Witness ==
  /\ p_pc = "done"
  /\ p_input = Str(ExAllStages)
  /\ p_args = AllOn
  /\ p_faults = {"parentheses"}
  /\ Len(p_trace) = 6

\* The arguments args with the stages in off disabled.
Disabling(args, off) ==
  [ignore_asterisks |-> args.ignore_asterisks /\ "asterisks" \notin off,
   ignore_brackets |-> args.ignore_brackets /\ "brackets" \notin off,
   ignore_parentheses |-> args.ignore_parentheses /\ "parentheses" \notin off,
   remove_special_char |-> args.remove_special_char /\ "special" \notin off,
   ignore_angle_brackets |-> args.ignore_angle_brackets /\ "angle" \notin off,
   translator |-> args.translator /\ "translate" \notin off]

\* C4: for text input, whatever enabled stages fail, tts_filter returns
\* without raising, and returns what it returns with those stages disabled.
C4_FailOpen ==
  (p_input.kind = "str") =>
    /\ p_ret.raised \in {"", "pending"}
    /\ (p_pc = "done") =>
         /\ p_ret.raised = ""
         /\ p_ret = tts_filter(p_input, Disabling(p_args, p_faults), {})

\* C4 witness: a call in which two stages with work to do failed has returned.
C4_Witness ==
  /\ p_pc = "done"
  /\ p_input = Str(ExAllStages)
  /\ p_args = AllOn
  /\ p_faults = {"brackets", "translate"}
  /\ p_ret.raised = ""

NestedStageOn(args) ==
  args.ignore_brackets \/ args.ignore_parentheses \/ args.ignore_angle_brackets

\* C5: a call of tts_filter with a non-text input and a nested-delimiter
\* stage enabled ends with the invalid-argument error raised to the caller,
\* never with a returned value.
C5_NonTextRaises ==
  (p_pc = "done" /\ p_input.kind # "str" /\ NestedStageOn(p_args)) =>
    p_ret.raised = "TypeError"

\* Characters of s found only inside <...> regions of s.
OnlyInsideAngle(s) ==
  LET outside == {s[k] : k \in Depth0Positions(s, AnglePair)}
      inside == {s[k] : k \in {m \in 1..Len(s) : DepthAfter(s, m - 1, AnglePair) > 0}}
  IN inside \ (outside \cup {AnglePair[1], AnglePair[2]})

\* C10: with ignore_angle_brackets enabled and no stage failing, no input
\* character that lies inside a <...> region appears in the returned text,
\* whatever the other toggles.
C10_AngleTextRemoved ==
  (/\ p_pc = "done"
   /\ p_input.kind = "str"
   /\ p_args.ignore_angle_brackets
   /\ \A k \in 1..Len(p_trace) : p_trace[k].ok) =>
    \A ch \in OnlyInsideAngle(p_input.v) :
      \A k \in 1..Len(p_ret.value.v) : p_ret.value.v[k] # ch

====
